---- MODULE Spec2Model ----
(***************************************************************************)
(* Model of the logic-directional-movement component                       *)
(* (src/js/standard-components/logic-directional-movement.js).             *)
(*                                                                         *)
(* Numbers.  speed is held in thousandths (0.3 is 300).  The code divides  *)
(* the speed by the literal 1.414 = 707/500, so velocities and positions   *)
(* are held in units of 1/707000: a cardinal velocity is speed*707 and a   *)
(* diagonal velocity is speed*500 (= speed*707/1.414) of these units per   *)
(* unit of deltaT.  Arithmetic is exact; IEEE rounding of the additions is *)
(* not modelled.                                                           *)
(***************************************************************************)
EXTENDS Integers, Sequences, FiniteSets

\* ---- bounds -----------------------------------------------------------
\* number of handle-logic ticks explored in one behaviour
MaxTicks == 2

\* ---- constants of the program ------------------------------------------
DefaultSpeed == 300          \* .3, in thousandths
CardinalScale == 707         \* position units per thousandth
DiagonalScale == 500         \* CardinalScale / 1.414
PosUnit == CardinalScale * 1000   \* position units in 1.0

\* the eight intent flags of the component
Directions ==
  {"up", "down", "left", "right", "upLeft", "upRight", "downLeft", "downRight"}

\* the five fields of the state snapshot
StateFields == {"moving", "left", "right", "up", "down"}

\* payloads of a directional or stop message: none, an object without a
\* pressed field, and objects whose pressed is true or false
Payloads == {"undefined", "{}", "{pressed:true}", "{pressed:false}"}

\* payloads of the directional messages of the game loop: a command without
\* payload and a controller's release (the four payloads of a directional
\* message are told apart under SpecMessages)
LoopPayloads == {"undefined", "{pressed:false}"}

\* elapsed times a tick is delivered with
DeltaTs == {10}

\* values of definition.speed (0 stands for an absent or zero speed)
DefinitionSpeeds == {0, 300}

\* variant: go-southwest is given the handler of downRight
TargetSouthwestSlip ==
  [n \in {"go-down", "go-south", "go-down-left", "go-southwest",
          "go-left", "go-west", "go-up-left", "go-northwest",
          "go-up", "go-north", "go-up-right", "go-northeast",
          "go-right", "go-east", "go-down-right", "go-southeast"} |->
     CASE n \in {"go-down", "go-south"} -> "down"
       [] n \in {"go-down-left"} -> "downLeft"
       [] n \in {"go-left", "go-west"} -> "left"
       [] n \in {"go-up-left", "go-northwest"} -> "upLeft"
       [] n \in {"go-up", "go-north"} -> "up"
       [] n \in {"go-up-right", "go-northeast"} -> "upRight"
       [] n \in {"go-right", "go-east"} -> "right"
       [] n \in {"go-down-right", "go-southeast", "go-southwest"} -> "downRight"]

\* the directional message names and the flag each one's handler targets
Target ==
  [n \in {"go-down", "go-south", "go-down-left", "go-southwest",
          "go-left", "go-west", "go-up-left", "go-northwest",
          "go-up", "go-north", "go-up-right", "go-northeast",
          "go-right", "go-east", "go-down-right", "go-southeast"} |->
     CASE n \in {"go-down", "go-south"} -> "down"
       [] n \in {"go-down-left", "go-southwest"} -> "downLeft"
       [] n \in {"go-left", "go-west"} -> "left"
       [] n \in {"go-up-left", "go-northwest"} -> "upLeft"
       [] n \in {"go-up", "go-north"} -> "up"
       [] n \in {"go-up-right", "go-northeast"} -> "upRight"
       [] n \in {"go-right", "go-east"} -> "right"
       [] n \in {"go-down-right", "go-southeast"} -> "downRight"]

DirectionalMessages == DOMAIN Target

\* the array of message ids the constructor hands to addListeners
ListenedMessages ==
  << "handle-logic",
     "go-down",       "go-south",
     "go-down-left",  "go-southwest",
     "go-left",       "go-west",
     "go-up-left",    "go-northwest",
     "go-up",         "go-north",
     "go-up-right",   "go-northeast",
     "go-right",      "go-east",
     "go-down-right", "go-southeast",
     "stop" >>

VARIABLES
  flags,     \* this.up, this.down, ... this.downRight
  moving,    \* this.moving
  state,     \* this.state, the snapshot handed to logical-state
  speed,     \* this.speed
  x, y,      \* this.owner.x, this.owner.y
  emitted,   \* messages triggered on the owner by the latest handler call
  last,      \* observation of the latest message delivered to the component
  ticks,     \* number of handle-logic messages delivered so far
  bound      \* the <<message, callback>> pairs bound on this.owner

vars == <<flags, moving, state, speed, x, y, emitted, last, ticks, bound>>

\* ---- JavaScript truthiness of the payloads ------------------------------
\* if(state): an object is truthy, undefined is not
Truthy(p) == p # "undefined"

\* if(state.pressed): only pressed === true is truthy, a missing pressed
\* reads as undefined
PressedTruthy(p) == p = "{pressed:true}"

\* ---- listeners ----------------------------------------------------------
\* the closure addListener creates in its i-th call; every call creates a
\* function of its own
Func(i) == i

\* addListener(messageId) without callback: binds func on the owner and
\* stores it in this.listeners[messageId]
AddListener(b, l, messageId, func) ==
  [bound     |-> b \cup {<<messageId, func>>},
   listeners |-> [m \in DOMAIN l \cup {messageId} |->
                    IF m = messageId THEN func ELSE l[m]]]

\* addListeners(messageIds): the for-in loop from index i on
RECURSIVE AddListenersFrom(_, _, _, _)
AddListenersFrom(messageIds, i, b, l) ==
  IF i > Len(messageIds) THEN [bound |-> b, listeners |-> l]
  ELSE LET r == AddListener(b, l, messageIds[i], Func(i))
       IN AddListenersFrom(messageIds, i + 1, r.bound, r.listeners)

AddListeners(messageIds) == AddListenersFrom(messageIds, 1, {}, << >>)

\* variant: unbind is called with a new function instead of the bound one
RemoveListenerNewFunc(b, boundMessageId, callback) ==
  b \ {<<boundMessageId, Func(0)>>}

\* removeListener(boundMessageId, callback): owner.unbind of that pair
RemoveListener(b, boundMessageId, callback) ==
  b \ {<<boundMessageId, callback>>}

\* removeListeners(listeners): the for-in loop over the keys still in ids
RECURSIVE RemoveListenersFrom(_, _, _)
RemoveListenersFrom(b, l, ids) ==
  IF ids = {} THEN b
  ELSE LET messageId == CHOOSE m \in ids : TRUE
       IN RemoveListenersFrom(RemoveListener(b, messageId, l[messageId]),
                              l, ids \ {messageId})

RemoveListeners(b, l) == RemoveListenersFrom(b, l, DOMAIN l)

\* a listener for message m is bound on the owner
Listening(m) == \E b \in bound : b[1] = m

\* this.listeners: message id -> the function bound for it; assigned by the
\* constructor's addListeners and by nothing after it
listeners == AddListeners(ListenedMessages).listeners

\* ---- construction ------------------------------------------------------
Init ==
  /\ bound = AddListeners(ListenedMessages).bound
  /\ flags = [d \in Directions |-> FALSE]
  /\ moving = FALSE
  /\ state = [f \in StateFields |-> FALSE]
  /\ \E ds \in DefinitionSpeeds : speed = IF ds # 0 THEN ds ELSE DefaultSpeed
  /\ x = 0
  /\ y = 0
  /\ emitted = << >>
  /\ last = [msg |-> "constructor", payload |-> "undefined", deltaT |-> 0]
  /\ ticks = 0

\* ---- processDirection --------------------------------------------------
\* variant: a payload is always a press
DirectionValueAlwaysPress(p) == TRUE

\* the value processDirection(direction) stores in this[direction]
DirectionValue(p) ==
  IF Truthy(p) THEN (IF PressedTruthy(p) THEN TRUE ELSE FALSE) ELSE TRUE

\* variant: a message without payload toggles the flag
ProcessDirectionToggle(direction, p) ==
  flags' = [flags EXCEPT ![direction] =
              IF Truthy(p) THEN PressedTruthy(p) ELSE ~flags[direction]]

ProcessDirection(direction, p) ==
  flags' = [flags EXCEPT ![direction] = DirectionValue(p)]

\* a directional message n delivered with payload p
Go(n, p) ==
  /\ ProcessDirection(Target[n], p)
  /\ emitted' = << >>
  /\ UNCHANGED <<moving, state, speed, x, y, ticks, bound>>

\* ---- stop ---------------------------------------------------------------
\* variant: only a stop without payload clears
StopClearsNoPayloadOnly(p) == ~Truthy(p)

StopClears(p) == ~Truthy(p) \/ PressedTruthy(p)

\* variant: a stop that clears the flags clears this.moving as well
StopResetsMoving(p) ==
  /\ flags' = IF StopClears(p) THEN [d \in Directions |-> FALSE] ELSE flags
  /\ moving' = IF StopClears(p) THEN FALSE ELSE moving
  /\ emitted' = << >>
  /\ UNCHANGED <<state, speed, x, y, ticks, bound>>

Stop(p) ==
  /\ flags' = IF StopClears(p) THEN [d \in Directions |-> FALSE] ELSE flags
  /\ emitted' = << >>
  /\ UNCHANGED <<moving, state, speed, x, y, ticks, bound>>

\* ---- handle-logic -------------------------------------------------------
\* variant: the cardinals are the raw flags
DerivedRawCardinals(f) ==
  [up        |-> f["up"],
   upLeft    |-> f["upLeft"]    \/ (f["up"] /\ f["left"]),
   left      |-> f["left"],
   downLeft  |-> f["downLeft"]  \/ (f["down"] /\ f["left"]),
   down      |-> f["down"],
   downRight |-> f["downRight"] \/ (f["down"] /\ f["right"]),
   right     |-> f["right"],
   upRight   |-> f["upRight"]   \/ (f["up"] /\ f["right"])]

\* variant: a diagonal is derived from its own flag only
DerivedOwnFlagOnly(f) ==
  [up        |-> f["up"]        \/ f["upLeft"] \/ f["downLeft"],
   upLeft    |-> f["upLeft"],
   left      |-> f["left"]      \/ f["upLeft"] \/ f["downLeft"],
   downLeft  |-> f["downLeft"],
   down      |-> f["down"]      \/ f["downLeft"] \/ f["downRight"],
   downRight |-> f["downRight"],
   right     |-> f["right"]     \/ f["upRight"] \/ f["downRight"],
   upRight   |-> f["upRight"]]

\* the local variables up, upLeft, ... computed at the top of the handler
Derived(f) ==
  [up        |-> f["up"]        \/ f["upLeft"] \/ f["downLeft"],
   upLeft    |-> f["upLeft"]    \/ (f["up"] /\ f["left"]),
   left      |-> f["left"]      \/ f["upLeft"] \/ f["downLeft"],
   downLeft  |-> f["downLeft"]  \/ (f["down"] /\ f["left"]),
   down      |-> f["down"]      \/ f["downLeft"] \/ f["downRight"],
   downRight |-> f["downRight"] \/ (f["down"] /\ f["right"]),
   right     |-> f["right"]     \/ f["upRight"] \/ f["downRight"],
   upRight   |-> f["upRight"]   \/ (f["up"] /\ f["right"])]

\* variant: the opposing-cardinal tests come after the diagonal tests
ResolveDiagonalsFirst(f, s) ==
  LET d == Derived(f) IN
  IF d.upLeft         THEN [vX |-> -(s * DiagonalScale), vY |-> -(s * DiagonalScale), moving |-> TRUE]
  ELSE IF d.upRight   THEN [vX |->   s * DiagonalScale,  vY |-> -(s * DiagonalScale), moving |-> TRUE]
  ELSE IF d.downLeft  THEN [vX |-> -(s * DiagonalScale), vY |->   s * DiagonalScale,  moving |-> TRUE]
  ELSE IF d.downRight THEN [vX |->   s * DiagonalScale,  vY |->   s * DiagonalScale,  moving |-> TRUE]
  ELSE IF f["up"] /\ f["down"]    THEN [vX |-> 0, vY |-> 0, moving |-> FALSE]
  ELSE IF f["left"] /\ f["right"] THEN [vX |-> 0, vY |-> 0, moving |-> FALSE]
  ELSE IF f["left"]   THEN [vX |-> -(s * CardinalScale), vY |-> 0, moving |-> TRUE]
  ELSE IF f["right"]  THEN [vX |->   s * CardinalScale,  vY |-> 0, moving |-> TRUE]
  ELSE IF f["up"]     THEN [vX |-> 0, vY |-> -(s * CardinalScale), moving |-> TRUE]
  ELSE IF f["down"]   THEN [vX |-> 0, vY |->   s * CardinalScale,  moving |-> TRUE]
  ELSE [vX |-> 0, vY |-> 0, moving |-> FALSE]

\* variant: the downLeft branch has the signs of upLeft
ResolveDownLeftSign(f, s) ==
  LET d == Derived(f) IN
  IF f["up"] /\ f["down"]         THEN [vX |-> 0, vY |-> 0, moving |-> FALSE]
  ELSE IF f["left"] /\ f["right"] THEN [vX |-> 0, vY |-> 0, moving |-> FALSE]
  ELSE IF d.upLeft    THEN [vX |-> -(s * DiagonalScale), vY |-> -(s * DiagonalScale), moving |-> TRUE]
  ELSE IF d.upRight   THEN [vX |->   s * DiagonalScale,  vY |-> -(s * DiagonalScale), moving |-> TRUE]
  ELSE IF d.downLeft  THEN [vX |-> -(s * DiagonalScale), vY |-> -(s * DiagonalScale), moving |-> TRUE]
  ELSE IF d.downRight THEN [vX |->   s * DiagonalScale,  vY |->   s * DiagonalScale,  moving |-> TRUE]
  ELSE IF f["left"]   THEN [vX |-> -(s * CardinalScale), vY |-> 0, moving |-> TRUE]
  ELSE IF f["right"]  THEN [vX |->   s * CardinalScale,  vY |-> 0, moving |-> TRUE]
  ELSE IF f["up"]     THEN [vX |-> 0, vY |-> -(s * CardinalScale), moving |-> TRUE]
  ELSE IF f["down"]   THEN [vX |-> 0, vY |->   s * CardinalScale,  moving |-> TRUE]
  ELSE [vX |-> 0, vY |-> 0, moving |-> FALSE]

\* variant: the up and down branches are exchanged
ResolveUpDownSwapped(f, s) ==
  LET d == Derived(f) IN
  IF f["up"] /\ f["down"]         THEN [vX |-> 0, vY |-> 0, moving |-> FALSE]
  ELSE IF f["left"] /\ f["right"] THEN [vX |-> 0, vY |-> 0, moving |-> FALSE]
  ELSE IF d.upLeft    THEN [vX |-> -(s * DiagonalScale), vY |-> -(s * DiagonalScale), moving |-> TRUE]
  ELSE IF d.upRight   THEN [vX |->   s * DiagonalScale,  vY |-> -(s * DiagonalScale), moving |-> TRUE]
  ELSE IF d.downLeft  THEN [vX |-> -(s * DiagonalScale), vY |->   s * DiagonalScale,  moving |-> TRUE]
  ELSE IF d.downRight THEN [vX |->   s * DiagonalScale,  vY |->   s * DiagonalScale,  moving |-> TRUE]
  ELSE IF f["left"]   THEN [vX |-> -(s * CardinalScale), vY |-> 0, moving |-> TRUE]
  ELSE IF f["right"]  THEN [vX |->   s * CardinalScale,  vY |-> 0, moving |-> TRUE]
  ELSE IF f["up"]     THEN [vX |-> 0, vY |->   s * CardinalScale,  moving |-> TRUE]
  ELSE IF f["down"]   THEN [vX |-> 0, vY |-> -(s * CardinalScale), moving |-> TRUE]
  ELSE [vX |-> 0, vY |-> 0, moving |-> FALSE]

\* variant: the downRight test comes before the three other diagonal tests
ResolveDownRightFirst(f, s) ==
  LET d == Derived(f) IN
  IF f["up"] /\ f["down"]         THEN [vX |-> 0, vY |-> 0, moving |-> FALSE]
  ELSE IF f["left"] /\ f["right"] THEN [vX |-> 0, vY |-> 0, moving |-> FALSE]
  ELSE IF d.downRight THEN [vX |->   s * DiagonalScale,  vY |->   s * DiagonalScale,  moving |-> TRUE]
  ELSE IF d.upLeft    THEN [vX |-> -(s * DiagonalScale), vY |-> -(s * DiagonalScale), moving |-> TRUE]
  ELSE IF d.upRight   THEN [vX |->   s * DiagonalScale,  vY |-> -(s * DiagonalScale), moving |-> TRUE]
  ELSE IF d.downLeft  THEN [vX |-> -(s * DiagonalScale), vY |->   s * DiagonalScale,  moving |-> TRUE]
  ELSE IF f["left"]   THEN [vX |-> -(s * CardinalScale), vY |-> 0, moving |-> TRUE]
  ELSE IF f["right"]  THEN [vX |->   s * CardinalScale,  vY |-> 0, moving |-> TRUE]
  ELSE IF f["up"]     THEN [vX |-> 0, vY |-> -(s * CardinalScale), moving |-> TRUE]
  ELSE IF f["down"]   THEN [vX |-> 0, vY |->   s * CardinalScale,  moving |-> TRUE]
  ELSE [vX |-> 0, vY |-> 0, moving |-> FALSE]

\* the if / else-if chain: the velocity and the new value of this.moving
Resolve(f, s) ==
  LET d == Derived(f) IN
  IF f["up"] /\ f["down"]         THEN [vX |-> 0, vY |-> 0, moving |-> FALSE]
  ELSE IF f["left"] /\ f["right"] THEN [vX |-> 0, vY |-> 0, moving |-> FALSE]
  ELSE IF d.upLeft    THEN [vX |-> -(s * DiagonalScale), vY |-> -(s * DiagonalScale), moving |-> TRUE]
  ELSE IF d.upRight   THEN [vX |->   s * DiagonalScale,  vY |-> -(s * DiagonalScale), moving |-> TRUE]
  ELSE IF d.downLeft  THEN [vX |-> -(s * DiagonalScale), vY |->   s * DiagonalScale,  moving |-> TRUE]
  ELSE IF d.downRight THEN [vX |->   s * DiagonalScale,  vY |->   s * DiagonalScale,  moving |-> TRUE]
  ELSE IF f["left"]   THEN [vX |-> -(s * CardinalScale), vY |-> 0, moving |-> TRUE]
  ELSE IF f["right"]  THEN [vX |->   s * CardinalScale,  vY |-> 0, moving |-> TRUE]
  ELSE IF f["up"]     THEN [vX |-> 0, vY |-> -(s * CardinalScale), moving |-> TRUE]
  ELSE IF f["down"]   THEN [vX |-> 0, vY |->   s * CardinalScale,  moving |-> TRUE]
  ELSE [vX |-> 0, vY |-> 0, moving |-> FALSE]

\* variant: the cardinals of the snapshot are kept while not moving
SnapshotKeepsHeading(f, s) ==
  LET d == Derived(f)
      m == Resolve(f, s).moving
  IN
  [moving |-> m,
   up     |-> IF m THEN d.up    ELSE state["up"],
   right  |-> IF m THEN d.right ELSE state["right"],
   down   |-> IF m THEN d.down  ELSE state["down"],
   left   |-> IF m THEN d.left  ELSE state["left"]]

\* the five values the handler compares with this.state
Snapshot(f, s) ==
  LET d == Derived(f) IN
  [moving |-> Resolve(f, s).moving,
   up     |-> d.up,
   right  |-> d.right,
   down   |-> d.down,
   left   |-> d.left]

\* variant: the comparison of state.left is missing
StateChangedNoLeft(old, new) == \E k \in StateFields \ {"left"} : old[k] # new[k]

\* variant: logical-state is fired on each tick
StateChangedAlways(old, new) == TRUE

\* stateChanged after the five comparisons
StateChanged(old, new) == \E k \in StateFields : old[k] # new[k]

\* variant: stopped and moving are triggered as well when this.moving changes
HandleLogicEdgeMessages(deltaT) ==
  LET r == Resolve(flags, speed)
      new == Snapshot(flags, speed)
      edge == IF state["moving"] = r.moving THEN << >>
              ELSE << [message |-> IF r.moving THEN "moving" ELSE "stopped",
                       payload |-> new] >>
  IN
  /\ ticks < MaxTicks
  /\ moving' = r.moving
  /\ x' = x + r.vX * deltaT
  /\ y' = y + r.vY * deltaT
  /\ state' = new
  /\ emitted' = IF StateChanged(state, new)
                THEN << [message |-> "logical-state", payload |-> new] >> \o edge
                ELSE << >>
  /\ ticks' = ticks + 1
  /\ UNCHANGED <<flags, speed, bound>>

\* variant: this.state.moving is compared but not assigned
HandleLogicStaleMoving(deltaT) ==
  LET r == Resolve(flags, speed)
      new == Snapshot(flags, speed)
  IN
  /\ ticks < MaxTicks
  /\ moving' = r.moving
  /\ x' = x + r.vX * deltaT
  /\ y' = y + r.vY * deltaT
  /\ state' = [new EXCEPT !["moving"] = state["moving"]]
  /\ emitted' = IF StateChanged(state, new)
                THEN << [message |-> "logical-state", payload |-> state'] >>
                ELSE << >>
  /\ ticks' = ticks + 1
  /\ UNCHANGED <<flags, speed, bound>>

HandleLogic(deltaT) ==
  LET r == Resolve(flags, speed)
      new == Snapshot(flags, speed)
  IN
  /\ ticks < MaxTicks
  /\ moving' = r.moving
  /\ x' = x + r.vX * deltaT
  /\ y' = y + r.vY * deltaT
  /\ state' = new
  /\ emitted' = IF StateChanged(state, new)
                THEN << [message |-> "logical-state", payload |-> new] >>
                ELSE << >>
  /\ ticks' = ticks + 1
  /\ UNCHANGED <<flags, speed, bound>>

\* ---- delivery of messages to the component ------------------------------
\* The game loop: directional and stop messages interleaved with ticks.  The
\* observation keeps the kind of the message and the tick's deltaT.
LoopGo(n, p) ==
  Go(n, p) /\ last' = [msg |-> "go", payload |-> "-", deltaT |-> 0]

LoopStop(p) ==
  Stop(p) /\ last' = [msg |-> "stop", payload |-> "-", deltaT |-> 0]

LoopTick(deltaT) ==
  HandleLogic(deltaT)
  /\ last' = [msg |-> "handle-logic", payload |-> "{deltaT}", deltaT |-> deltaT]

Next ==
  \/ \E n \in DirectionalMessages, p \in LoopPayloads : LoopGo(n, p)
  \/ \E p \in Payloads : LoopStop(p)
  \/ \E deltaT \in DeltaTs : LoopTick(deltaT)

Spec == Init /\ [][Next]_vars

\* The controller: directional and stop messages only.  The observation keeps
\* the name and the payload of the message.
SendGo(n, p) ==
  Go(n, p) /\ last' = [msg |-> n, payload |-> p, deltaT |-> 0]

SendStop(p) ==
  Stop(p) /\ last' = [msg |-> "stop", payload |-> p, deltaT |-> 0]

NextMessages ==
  \/ \E n \in DirectionalMessages, p \in Payloads : SendGo(n, p)
  \/ \E p \in Payloads : SendStop(p)

SpecMessages == Init /\ [][NextMessages]_vars

\* ---- destroy -------------------------------------------------------------
Destroy ==
  /\ last.msg # "destroy"
  /\ bound' = RemoveListeners(bound, listeners)
  /\ emitted' = << >>
  /\ last' = [msg |-> "destroy", payload |-> "undefined", deltaT |-> 0]
  /\ UNCHANGED <<flags, moving, state, speed, x, y, ticks>>

\* The life of the component: the owner delivers a message to the listener
\* bound for it, until the component is destroyed.
LiveGo(n, p) == Listening(n) /\ SendGo(n, p)

LiveStop(p) == Listening("stop") /\ SendStop(p)

NextLife ==
  \/ \E n \in DirectionalMessages, p \in Payloads : LiveGo(n, p)
  \/ \E p \in Payloads : LiveStop(p)
  \/ Destroy

SpecLife == Init /\ [][NextLife]_vars

TypeOK ==
  /\ flags \in [Directions -> BOOLEAN]
  /\ moving \in BOOLEAN
  /\ state \in [StateFields -> BOOLEAN]
  /\ speed \in Nat \ {0}
  /\ x \in Int /\ y \in Int
  /\ Len(emitted) <= 1
  /\ ticks \in 0..MaxTicks

\* ======================================================================
\* Properties
\* ======================================================================

\* a step of the game loop that is a handle-logic tick
IsTick == last'.msg = "handle-logic" /\ ticks' = ticks + 1

\* the latest message was a directional message
LastIsGo == last.msg \in DirectionalMessages

AllFlagsFalse(f) == \A d \in Directions : ~f[d]

\* a pair of opposing raw cardinal flags is set
Opposing(f) == (f["up"] /\ f["down"]) \/ (f["left"] /\ f["right"])

\* the two cardinals adjacent to a diagonal
Adjacent ==
  [upLeft    |-> {"up", "left"},
   upRight   |-> {"up", "right"},
   downLeft  |-> {"down", "left"},
   downRight |-> {"down", "right"}]

Diagonals == DOMAIN Adjacent

\* a diagonal is active: its own flag is set or both adjacent cardinals are
Active(f, g) == f[g] \/ (\A c \in Adjacent[g] : f[c])

\* signs of the velocity of each diagonal
SignX == [upLeft |-> -1, upRight |-> 1, downLeft |-> -1, downRight |-> 1]
SignY == [upLeft |-> -1, upRight |-> -1, downLeft |-> 1, downRight |-> 1]

\* the diagonals tested before g in the handler's chain
Earlier ==
  [upLeft    |-> {},
   upRight   |-> {"upLeft"},
   downLeft  |-> {"upLeft", "upRight"},
   downRight |-> {"upLeft", "upRight", "downLeft"}]

\* the owner moved by the velocity of diagonal g during the step
MovedDiagonally(g) ==
  /\ x' - x = SignX[g] * speed * DiagonalScale * last'.deltaT
  /\ y' - y = SignY[g] * speed * DiagonalScale * last'.deltaT
  /\ moving'

\* ---- C1 ----------------------------------------------------------------
\* C1: on every tick in which raw up and down are both set, or raw left and
\* right are both set, the owner's x and y are unchanged and moving is false
\* afterwards, whatever the other flags are.
C1_OpposingCancel ==
  [][IsTick /\ Opposing(flags) => x' = x /\ y' = y /\ moving' = FALSE]_vars

\* a tick has run with up and down both set while a diagonal flag was set,
\* after the owner had already been moved
C1_Witness ==
  /\ last.msg = "handle-logic"
  /\ flags["up"] /\ flags["down"] /\ flags["upLeft"]
  /\ ~moving
  /\ x # 0

\* ---- C2 ----------------------------------------------------------------
\* the five values derived by a tick: the new this.moving and the derived
\* cardinals
DerivedFive ==
  [moving |-> moving',
   up     |-> Derived(flags).up,
   right  |-> Derived(flags).right,
   down   |-> Derived(flags).down,
   left   |-> Derived(flags).left]

C3_EmptyPayloadPresses ==
  LastIsGo /\ last.payload = "{}" => flags[Target[last.msg]] = TRUE

\* ---- C4 ----------------------------------------------------------------
\* the derived cardinals as the claim defines them
ClaimedCardinal(f, c) ==
  f[c] \/ \E g \in Diagonals : c \in Adjacent[g] /\ Active(f, g)

\* C4: after any tick, state.D is true if and only if the raw D flag is set
\* or an active diagonal having D as a component is active.
C4_DerivedCardinals ==
  last.msg = "handle-logic" =>
    \A c \in {"up", "down", "left", "right"} : state[c] = ClaimedCardinal(flags, c)

\* ---- C5 ----------------------------------------------------------------
\* C5 as stated: on every tick in which a diagonal is active the owner moves
\* by that diagonal's velocity and moving is true.
C5_Original ==
  [][IsTick => \A g \in Diagonals : Active(flags, g) => MovedDiagonally(g)]_vars

\* C5 amended: on every tick in which a diagonal is active, no pair of
\* opposing raw cardinals is set and no diagonal tested earlier (upLeft,
\* upRight, downLeft, downRight) is active, the owner moves by that
\* diagonal's velocity, speed/1.414 on both axes with the diagonal's signs,
\* and moving is true.
C5_DiagonalVelocity ==
  [][IsTick =>
       \A g \in Diagonals :
         (/\ Active(flags, g)
          /\ ~Opposing(flags)
          /\ \A e \in Earlier[g] : ~Active(flags, e))
         => MovedDiagonally(g)]_vars

\* a tick has moved the owner down-left because down and left were both set
C5_Witness ==
  /\ last.msg = "handle-logic"
  /\ ticks = 1
  /\ flags = [d \in Directions |-> d \in {"down", "left"}]
  /\ x = -(speed * DiagonalScale * 10)
  /\ y = speed * DiagonalScale * 10
  /\ moving

\* ---- C6 ----------------------------------------------------------------
\* C6: stop clears all eight flags unless the payload's pressed is false;
\* with a payload that has no pressed field the flags are cleared too.
C6_StopClearsUnlessReleased ==
  last.msg = "stop" /\ last.payload # "{pressed:false}" => AllFlagsFalse(flags)

\* ---- C7 ----------------------------------------------------------------
\* C7: stop without payload or with pressed true leaves all eight flags
\* false; stop with pressed false leaves all eight flags as they were.
C7_Stop ==
  [][last'.msg = "stop" =>
       /\ last'.payload \in {"undefined", "{pressed:true}"} => AllFlagsFalse(flags')
       /\ last'.payload = "{pressed:false}" => flags' = flags]_vars

\* a stop with pressed false has been delivered while flags were set
C7_Witness ==
  /\ last.msg = "stop"
  /\ last.payload = "{pressed:false}"
  /\ flags["up"] /\ flags["downRight"] /\ flags["left"]

\* ---- C8 ----------------------------------------------------------------
\* C8: a directional message with a boolean pressed sets the targeted flag
\* to that boolean and changes none of the other seven flags.
C8_PressedSetsTarget ==
  [][(last'.msg \in DirectionalMessages
        /\ last'.payload \in {"{pressed:true}", "{pressed:false}"}) =>
       flags' = [flags EXCEPT ![Target[last'.msg]] =
                   (last'.payload = "{pressed:true}")]]_vars

\* go-west with pressed false has cleared left and left three others set
C8_Witness ==
  /\ last.msg = "go-west"
  /\ last.payload = "{pressed:false}"
  /\ flags = [d \in Directions |-> d \in {"up", "upLeft", "right"}]

\* ---- C9 ----------------------------------------------------------------
\* C9: a directional message without payload sets the targeted flag to true
\* whatever it was and leaves the other seven flags unchanged.
C9_NoPayloadSets ==
  [][(last'.msg \in DirectionalMessages /\ last'.payload = "undefined") =>
       flags' = [flags EXCEPT ![Target[last'.msg]] = TRUE]]_vars

\* go-north without payload has been delivered twice in a row: the second
\* one found up already true
C9_Witness ==
  /\ last.msg = "go-north"
  /\ last.payload = "undefined"
  /\ flags = [d \in Directions |-> d \in {"up", "down"}]

\* ---- C10 ---------------------------------------------------------------
\* the axis and sign of each cardinal
CardinalX == [up |-> 0, down |-> 0, left |-> -1, right |-> 1]
CardinalY == [up |-> -1, down |-> 1, left |-> 0, right |-> 0]

OnlyFlag(f, c) == \A d \in Directions : f[d] = (d = c)

\* C10: with exactly one cardinal flag set and the other seven clear, a tick
\* moves the owner by speed*deltaT along that cardinal's axis only and sets
\* moving; from rest, go-up then a tick with deltaT 10 and speed 0.3 takes
\* 3.0 off y, leaves x alone and emits logical-state
\* {moving:true, up:true, down:false, left:false, right:false}.
C10_SingleCardinal ==
  [][IsTick =>
       /\ \A c \in DOMAIN CardinalX :
            OnlyFlag(flags, c) =>
              /\ x' - x = CardinalX[c] * speed * CardinalScale * last'.deltaT
              /\ y' - y = CardinalY[c] * speed * CardinalScale * last'.deltaT
              /\ moving'
       /\ (/\ OnlyFlag(flags, "up")
           /\ state = [f \in StateFields |-> FALSE]
           /\ speed = 300
           /\ last'.deltaT = 10)
          => /\ y' = y - 3 * PosUnit
             /\ x' = x
             /\ emitted' = << [message |-> "logical-state",
                               payload |-> [moving |-> TRUE, up |-> TRUE,
                                            down |-> FALSE, left |-> FALSE,
                                            right |-> FALSE]] >>]_vars

\* from rest, go-up and one tick: y is 3.0 less and logical-state was emitted
C10_Witness ==
  /\ last.msg = "handle-logic"
  /\ ticks = 1
  /\ OnlyFlag(flags, "up")
  /\ x = 0
  /\ y = -(3 * PosUnit)
  /\ emitted # << >>
  /\ state["up"] /\ state["moving"]

\* ---- C17 ---------------------------------------------------------------
\* the listeners bound on the owner for message m
BoundFor(m) == {b \in bound : b[1] = m}

\* the names the component listens for: handle-logic, the 16 directional
\* names and stop
ListenedNames == {"handle-logic", "stop"} \cup DirectionalMessages

\* exactly one listener is bound for each listened name and none for any
\* other, until destroy; after destroy nothing is bound
OneListenerEach ==
  /\ last.msg # "destroy" =>
       /\ \A m \in ListenedNames : Cardinality(BoundFor(m)) = 1
       /\ \A b \in bound : b[1] \in ListenedNames /\ listeners[b[1]] = b[2]
  /\ last.msg = "destroy" => bound = {}

\* C17 as stated: the listened names are 17, each with exactly one listener
\* until destroy, and none bound after destroy.
C17_Original ==
  /\ OneListenerEach
  /\ last.msg # "destroy" => Cardinality(bound) = 17

\* C17 amended: construction binds exactly one listener for each of the 18
\* message names (handle-logic, the 16 directional names, stop), and destroy
\* unbinds every one of them with the callback that was bound, so that no
\* listener of the component remains bound afterwards.
C17_Listeners ==
  /\ OneListenerEach
  /\ Cardinality(ListenedNames) = 18
  /\ last.msg # "destroy" => Cardinality(bound) = 18

\* the component was destroyed after it had received messages
C17_Witness ==
  /\ last.msg = "destroy"
  /\ bound = {}
  /\ DOMAIN listeners = ListenedNames
  /\ flags["up"] /\ flags["left"]

\* ---- C11 ---------------------------------------------------------------
\* the snapshot of the freshly constructed component
AtRest == [f \in StateFields |-> FALSE]

\* the owner did not move during the step and moving is false after it
Stayed == x' = x /\ y' = y /\ moving' = FALSE

FirstDiagonal(f) ==
  CHOOSE g \in Diagonals : Active(f, g) /\ \A e \in Earlier[g] : ~Active(f, e)

\* the owner moved by the velocity of cardinal c during the step
MovedCardinally(c) ==
  /\ x' - x = CardinalX[c] * speed * CardinalScale * last'.deltaT
  /\ y' - y = CardinalY[c] * speed * CardinalScale * last'.deltaT
  /\ moving'

AllTicksUpLeft ==
  /\ x = -(ticks * speed * DiagonalScale * 10)
  /\ y = -(ticks * speed * DiagonalScale * 10)

AliasPairs ==
  { <<"go-down", "go-south", "down">>,
    <<"go-down-left", "go-southwest", "downLeft">>,
    <<"go-left", "go-west", "left">>,
    <<"go-up-left", "go-northwest", "upLeft">>,
    <<"go-up", "go-north", "up">>,
    <<"go-up-right", "go-northeast", "upRight">>,
    <<"go-right", "go-east", "right">>,
    <<"go-down-right", "go-southeast", "downRight">> }

PairOf(n) == CHOOSE a \in AliasPairs : n \in {a[1], a[2]}

ClaimedTarget(n) == PairOf(n)[3]

AliasOf(n) == IF PairOf(n)[1] = n THEN PairOf(n)[2] ELSE PairOf(n)[1]

\* C16: each of the 16 directional names writes exactly the flag the claim
\* names for it and no other, and a message makes the step its alias makes
\* with the same payload: the same flags, position, snapshot and emissions.
C16_Aliases ==
  [][last'.msg \in DirectionalMessages =>
       /\ Cardinality({a[1] : a \in AliasPairs} \cup {a[2] : a \in AliasPairs}) = 16
       /\ \A d \in Directions \ {ClaimedTarget(last'.msg)} : flags'[d] = flags[d]
       /\ flags'[ClaimedTarget(last'.msg)] = DirectionValue(last'.payload)
       /\ Go(AliasOf(last'.msg), last'.payload)]_vars

\* go-southwest with pressed true has set downLeft next to up
C16_Witness ==
  /\ last.msg = "go-southwest"
  /\ last.payload = "{pressed:true}"
  /\ flags = [d \in Directions |-> d \in {"downLeft", "up"}]

\* ---- C18 ---------------------------------------------------------------
\* C18: a tick changes none of the eight flags and not the speed; a
\* directional or stop message changes neither the owner's x or y nor
\* moving nor the stored snapshot, and triggers no message.
C18_Frames ==
  [][/\ IsTick => flags' = flags /\ speed' = speed
     /\ last'.msg \in {"go", "stop"} =>
          /\ x' = x /\ y' = y
          /\ moving' = moving
          /\ state' = state
          /\ emitted' = << >>]_vars

\* the owner had moved and a stop has cleared the flags since: moving and
\* the snapshot are still those of the tick
C18_Witness ==
  /\ last.msg = "stop"
  /\ ticks = 1
  /\ AllFlagsFalse(flags)
  /\ moving /\ state["moving"] /\ state["left"]
  /\ x # 0
  /\ emitted = << >>

\* ---- C19 ---------------------------------------------------------------
\* moving as the flags give it: some flag is set and no opposing pair is
ChainMoving(f) == ~Opposing(f) /\ \E d \in Directions : f[d]

HasHeading(s) == s["moving"] => (s["up"] \/ s["down"] \/ s["left"] \/ s["right"])

\* C20: in every reachable state, and in every emitted logical-state
\* payload, moving true implies that up, down, left or right is true.
C20_MovingHasHeading ==
  /\ HasHeading(state)
  /\ \A i \in DOMAIN emitted : HasHeading(emitted[i].payload)

\* a tick with only the upRight flag set: moving with right as the only
\* heading
C20_Witness ==
  /\ last.msg = "handle-logic"
  /\ OnlyFlag(flags, "upRight")
  /\ state = [moving |-> TRUE, up |-> FALSE, right |-> TRUE,
              down |-> FALSE, left |-> FALSE]
  /\ emitted # << >>

====
